---- MODULE Spec2Model ----
(***************************************************************************)
(* Lead scoring service of src/server.js: the JobAnalysisEngine class and  *)
(* the Express handlers that call it.  Requests are handled one at a time  *)
(* (Node runs each handler to completion), so every handler is one action. *)
(* JavaScript numbers are IEEE-754 doubles; the score arithmetic is        *)
(* modelled bit-exactly on 53-bit significands held in 14-bit limbs.       *)
(***************************************************************************)
EXTENDS Integers, Sequences, FiniteSets, TLC

VARIABLES engine, req, res, now, engineCalls, history

vars == <<engine, req, res, now, engineCalls, history>>

(***************************************************************************)
(* Bounds of the model.                                                    *)
(***************************************************************************)
\* longest `leads` array submitted to /api/batch-analyze
MaxBatch == 2
\* largest employee count of the employee sweep
MaxEmployees == 1001
\* last instant of the clock read by new Date()
MaxClock == 1
\* the number of answers to one lead that the history counts
MaxReplays == 2

(***************************************************************************)
(* JavaScript values.  A primitive is a record with one slot per type, so  *)
(* that values of different types can be compared.                         *)
(***************************************************************************)
Undefined == [t |-> "undefined", n |-> 0, s |-> ""]
Null == [t |-> "null", n |-> 0, s |-> ""]
Num(n) == [t |-> "number", n |-> n, s |-> ""]
Str(s) == [t |-> "string", n |-> 0, s |-> s]
\* the number NaN
NaN == [t |-> "NaN", n |-> 0, s |-> ""]

\* !v
Falsy(v) ==
    \/ v.t \in {"undefined", "null", "NaN"}
    \/ v.t = "number" /\ v.n = 0
    \/ v.t = "string" /\ v.s = ""

\* v >= n, v a number or NaN
NumGeq(v, n) == v.t = "number" /\ v.n >= n

\* a || b
OrElse(a, b) == IF Falsy(a) THEN b ELSE a

\* objects of a request body; a missing member reads as undefined
JobObj(title) == [t |-> "object", title |-> title]
NoJob(t) == [t |-> t, title |-> Undefined]
CompanyObj(employees, industry, location) ==
    [t |-> "object", employees |-> employees, industry |-> industry,
     location |-> location]
NoCompany(t) ==
    [t |-> t, employees |-> Undefined, industry |-> Undefined,
     location |-> Undefined]
LeadObj(id, job, company) == [t |-> "object", id |-> id, job |-> job, company |-> company]
\* a `leads` entry that is no object: null or a number
PrimLead(t) ==
    [t |-> t, id |-> Undefined, job |-> NoJob("undefined"),
     company |-> NoCompany("undefined")]

\* reading a member of undefined or null throws a TypeError
Nullish(v) == v.t \in {"undefined", "null"}

Return(v) == [threw |-> FALSE, value |-> v, message |-> ""]
Throw(msg) == [threw |-> TRUE, value |-> Undefined, message |-> msg]

(***************************************************************************)
(* Natural numbers wider than the checker's integers: little-endian        *)
(* sequences of NLimbs limbs in base Base.                                 *)
(***************************************************************************)
LimbBits == 14
Base == 2 ^ LimbBits
NLimbs == 8

\* the element of the one-element set S; {F(v) : v \in {e}} computes e once
\* and hands its value v to F
Only(S) == CHOOSE x \in S : TRUE

Limb(a, i) == IF i >= 1 /\ i <= Len(a) THEN a[i] ELSE 0

BigOfInt(n) == [i \in 1..NLimbs |-> IF i = 1 THEN n % Base
                                     ELSE IF i = 2 THEN (n \div Base) % Base
                                     ELSE IF i = 3 THEN n \div (Base * Base)
                                     ELSE 0]

BigZero == BigOfInt(0)

BigIsZero(a) == \A i \in 1..NLimbs : a[i] = 0

\* bit i (0 = least significant) of a
BigBit(a, i) == (Limb(a, (i \div LimbBits) + 1) \div (2 ^ (i % LimbBits))) % 2

\* the low s bits of a are all zero
BigLowZero(a, s) ==
    /\ \A i \in 1..(s \div LimbBits) : Limb(a, i) = 0
    /\ Limb(a, (s \div LimbBits) + 1) % (2 ^ (s % LimbBits)) = 0

BigShr(a, s) ==
    LET q == s \div LimbBits
        r == s % LimbBits
    IN  [i \in 1..NLimbs |->
            (Limb(a, i + q) \div (2 ^ r))
            + (Limb(a, i + q + 1) % (2 ^ r)) * (2 ^ (LimbBits - r))]

BigShl(a, s) ==
    LET q == s \div LimbBits
        r == s % LimbBits
    IN  [i \in 1..NLimbs |->
            ((Limb(a, i - q) * (2 ^ r)) % Base)
            + (Limb(a, i - q - 1) \div (2 ^ (LimbBits - r)))]

RECURSIVE BitLenSmall(_)
BitLenSmall(n) == IF n = 0 THEN 0 ELSE 1 + BitLenSmall(n \div 2)

BigBitLen(a) ==
    IF BigIsZero(a) THEN 0
    ELSE LET top == CHOOSE i \in 1..NLimbs :
                        /\ a[i] # 0
                        /\ \A j \in (i + 1)..NLimbs : a[j] = 0
         IN  LimbBits * (top - 1) + BitLenSmall(a[top])

RECURSIVE BigCarry(_, _, _)
\* normalise the columns cols (each may exceed a limb) from limb i on
BigCarry(cols, i, carry) ==
    IF i > NLimbs THEN <<>>
    ELSE Only({<<t % Base>> \o BigCarry(cols, i + 1, t \div Base) :
                  t \in {cols[i] + carry}})

\* column k of the schoolbook product of two numbers of four limbs each
ProductColumn(a, b, k) ==
    IF k = 1 THEN a[1] * b[1]
    ELSE IF k = 2 THEN a[1] * b[2] + a[2] * b[1]
    ELSE IF k = 3 THEN a[1] * b[3] + a[2] * b[2] + a[3] * b[1]
    ELSE IF k = 4 THEN a[1] * b[4] + a[2] * b[3] + a[3] * b[2] + a[4] * b[1]
    ELSE IF k = 5 THEN a[2] * b[4] + a[3] * b[3] + a[4] * b[2]
    ELSE IF k = 6 THEN a[3] * b[4] + a[4] * b[3]
    ELSE IF k = 7 THEN a[4] * b[4]
    ELSE 0

\* the product of two numbers below Base^4
BigMul(a, b) ==
    Only({BigCarry(cols, 1, 0) :
             cols \in {[k \in 1..NLimbs |-> ProductColumn(a, b, k)]}})

BigInc(a) == BigCarry(a, 1, 1)

RECURSIVE BigDivStep(_, _, _, _)
\* long division of a by the small number d, from limb i down; rem is carried
BigDivStep(a, d, i, rem) ==
    IF i = 0 THEN [quot |-> <<>>, rem |-> rem]
    ELSE Only({[quot |-> rest.quot \o <<cur \div d>>, rem |-> rest.rem] :
                  cur \in {rem * Base + a[i]},
                  rest \in {BigDivStep(a, d, i - 1, (rem * Base + a[i]) % d)}})

BigDivSmall(a, d) == BigDivStep(a, d, NLimbs, 0)

(***************************************************************************)
(* IEEE-754 binary64: NaN, or the non-negative finite value m * 2^e with   *)
(* m = 0 or 2^52 <= m < 2^53.  Every operation rounds to nearest, ties to  *)
(* even.                                                                   *)
(***************************************************************************)
Precision == 53

FZero == [nan |-> FALSE, m |-> BigZero, e |-> 0]
FNaN == [nan |-> TRUE, m |-> BigZero, e |-> 0]

\* n of len > Precision bits rounded to Precision bits: q is n without its
\* low s = len - Precision bits
RoundOff(n, s, q, e0, sticky) ==
    LET halfBit == BigBit(n, s - 1) = 1
        exactHalf == BigLowZero(n, s - 1) /\ ~sticky
        up == halfBit /\ (~exactHalf \/ BigBit(q, 0) = 1)
    IN  Only({IF BigBitLen(m1) > Precision
              THEN [nan |-> FALSE, m |-> BigShr(m1, 1), e |-> e0 + s + 1]
              ELSE [nan |-> FALSE, m |-> m1, e |-> e0 + s] :
                 m1 \in {IF up THEN BigInc(q) ELSE q}})

\* the double nearest to the len-bit number n times 2^e0
RoundLen(n, len, e0, sticky) ==
    IF len = 0 THEN FZero
    ELSE IF len <= Precision
         THEN [nan |-> FALSE, m |-> BigShl(n, Precision - len),
               e |-> e0 - (Precision - len)]
    ELSE Only({RoundOff(n, len - Precision, q, e0, sticky) :
                  q \in {BigShr(n, len - Precision)}})

\* the double nearest to big * 2^e0 (+ a nonzero amount below one unit of
\* big when sticky)
RoundBig(big, e0, sticky) ==
    Only({RoundLen(n, BigBitLen(n), e0, sticky) : n \in {big}})

\* an integer 0 <= n < Base^2 as a double (exact)
FInt(n) == RoundBig(BigOfInt(n), 0, FALSE)

\* the correctly rounded quotient p / d of two small positive integers: the
\* value of the division p / d and of a decimal literal such as 1.15 = 115/100
FDiv(p, d) ==
    Only({RoundBig(qr.quot, 0 - 5 * LimbBits, qr.rem # 0) :
             qr \in {BigDivSmall(BigShl(BigOfInt(p), 5 * LimbBits), d)}})

\* the product of two doubles
FProduct(x, y) ==
    IF x.nan \/ y.nan THEN FNaN
    ELSE IF BigIsZero(x.m) \/ BigIsZero(y.m) THEN FZero
    ELSE RoundBig(BigMul(x.m, y.m), x.e + y.e, FALSE)

\* x * y
FMul(x, y) == Only({FProduct(a, b) : a \in {x}, b \in {y}})

RECURSIVE BigLess(_, _, _)
BigLess(a, b, i) ==
    IF i = 0 THEN FALSE
    ELSE IF a[i] # b[i] THEN a[i] < b[i]
    ELSE BigLess(a, b, i - 1)

\* x < y (false when either is NaN)
FLess(x, y) ==
    IF x.nan \/ y.nan THEN FALSE
    ELSE IF BigIsZero(y.m) THEN FALSE
    ELSE IF BigIsZero(x.m) THEN TRUE
    ELSE IF x.e # y.e THEN x.e < y.e
    ELSE BigLess(x.m, y.m, NLimbs)

\* x >= y (false when either is NaN)
FGeq(x, y) == ~x.nan /\ ~y.nan /\ ~FLess(x, y)

\* Math.min(x, y)
MathMin(x, y) ==
    IF x.nan \/ y.nan THEN FNaN
    ELSE IF FLess(y, x) THEN y ELSE x

\* Math.round(x) for NaN and for 0 <= x < Base^2: the nearest integer, ties
\* upward
MathRound(x) ==
    IF x.nan THEN NaN
    ELSE IF BigIsZero(x.m) THEN Num(0)
    ELSE IF x.e >= 0
         THEN Only({Num(w[1] + w[2] * Base) : w \in {BigShl(x.m, x.e)}})
    ELSE Only({Num(w[1] + w[2] * Base + BigBit(x.m, 0 - x.e - 1)) :
                  w \in {BigShr(x.m, 0 - x.e)}})

(***************************************************************************)
(* Strings: String.prototype.toLowerCase and String.prototype.includes.    *)
(***************************************************************************)
UpperToLower ==
    "A" :> "a" @@ "B" :> "b" @@ "C" :> "c" @@ "D" :> "d" @@ "E" :> "e" @@
    "F" :> "f" @@ "G" :> "g" @@ "H" :> "h" @@ "I" :> "i" @@ "J" :> "j" @@
    "K" :> "k" @@ "L" :> "l" @@ "M" :> "m" @@ "N" :> "n" @@ "O" :> "o" @@
    "P" :> "p" @@ "Q" :> "q" @@ "R" :> "r" @@ "S" :> "s" @@ "T" :> "t" @@
    "U" :> "u" @@ "V" :> "v" @@ "W" :> "w" @@ "X" :> "x" @@ "Y" :> "y" @@
    "Z" :> "z"

RECURSIVE toLowerCase(_)
toLowerCase(str) ==
    IF Len(str) = 0 THEN ""
    ELSE LET c == SubSeq(str, 1, 1)
         IN  (IF c \in DOMAIN UpperToLower THEN UpperToLower[c] ELSE c)
             \o toLowerCase(SubSeq(str, 2, Len(str)))

includes(str, keyword) ==
    \E i \in 1..(Len(str) - Len(keyword) + 1) :
        SubSeq(str, i, i + Len(keyword) - 1) = keyword

(***************************************************************************)
(* class JobAnalysisEngine.  Object.entries visits the keys of a table in  *)
(* insertion order, so each table is the sequence of its entries.          *)
(***************************************************************************)
Infinity == [finite |-> FALSE, n |-> 0]
Finite(n) == [finite |-> TRUE, n |-> n]

jobTitleWeights ==
    << <<"ceo", 100>>, <<"chief executive officer", 100>>,
       <<"cto", 95>>, <<"chief technology officer", 95>>,
       <<"cfo", 95>>, <<"chief financial officer", 95>>,
       <<"vp", 90>>, <<"vice president", 90>>,
       <<"director", 85>>, <<"senior director", 87>>,
       <<"manager", 70>>, <<"senior manager", 75>>,
       <<"lead", 65>>, <<"senior lead", 68>>,
       <<"specialist", 50>>, <<"senior specialist", 55>>,
       <<"analyst", 45>>, <<"senior analyst", 50>>,
       <<"coordinator", 40>>, <<"associate", 35>>,
       <<"assistant", 30>>, <<"intern", 20>> >>

departmentWeights ==
    << <<"sales", 95>>, <<"business development", 90>>,
       <<"marketing", 85>>, <<"product", 80>>,
       <<"engineering", 75>>, <<"technology", 75>>,
       <<"operations", 70>>, <<"finance", 65>>,
       <<"hr", 60>>, <<"human resources", 60>>,
       <<"legal", 55>>, <<"admin", 40>> >>

companyTiers ==
    << [name |-> "enterprise", weight |-> 100, employee_range |-> <<Finite(1000), Infinity>>],
       [name |-> "large", weight |-> 85, employee_range |-> <<Finite(250), Finite(999)>>],
       [name |-> "medium", weight |-> 70, employee_range |-> <<Finite(50), Finite(249)>>],
       [name |-> "small", weight |-> 55, employee_range |-> <<Finite(10), Finite(49)>>],
       [name |-> "startup", weight |-> 40, employee_range |-> <<Finite(1), Finite(9)>>] >>

\* new JobAnalysisEngine()
JobAnalysisEngine ==
    [jobTitleWeights |-> jobTitleWeights,
     departmentWeights |-> departmentWeights,
     companyTiers |-> companyTiers]

\* the level assigned when weight becomes the best score
LevelOf(weight) ==
    IF weight >= 90 THEN "c_level"
    ELSE IF weight >= 80 THEN "director"
    ELSE IF weight >= 65 THEN "manager"
    ELSE IF weight >= 45 THEN "specialist"
    ELSE "individual_contributor"

RECURSIVE LevelScanFirstMatch(_, _, _, _, _)
\* LevelScan leaving the loop at the first keyword that occurs in the title
LevelScanFirstMatch(table, normalizedTitle, i, bestScore, level) ==
    IF i > Len(table) THEN [bestScore |-> bestScore, level |-> level]
    ELSE IF includes(normalizedTitle, table[i][1])
         THEN [bestScore |-> table[i][2], level |-> LevelOf(table[i][2])]
    ELSE LevelScanFirstMatch(table, normalizedTitle, i + 1, bestScore, level)

RECURSIVE LevelScan(_, _, _, _, _)
\* the loop over Object.entries(this.jobTitleWeights), from entry i on
LevelScan(table, normalizedTitle, i, bestScore, level) ==
    IF i > Len(table) THEN [bestScore |-> bestScore, level |-> level]
    ELSE LET keyword == table[i][1]
             weight == table[i][2]
         IN  IF includes(normalizedTitle, keyword) /\ weight > bestScore
             THEN LevelScan(table, normalizedTitle, i + 1, weight, LevelOf(weight))
             ELSE LevelScan(table, normalizedTitle, i + 1, bestScore, level)

RECURSIVE DepartmentScanLast(_, _, _)
\* DepartmentScan without the break: the last keyword that occurs wins
DepartmentScanLast(table, normalizedTitle, i) ==
    IF i > Len(table) THEN "unknown"
    ELSE LET later == DepartmentScanLast(table, normalizedTitle, i + 1)
         IN  IF later # "unknown" THEN later
             ELSE IF includes(normalizedTitle, table[i][1]) THEN table[i][1]
             ELSE "unknown"

RECURSIVE DepartmentScan(_, _, _)
\* the loop over Object.entries(this.departmentWeights), from entry i on
DepartmentScan(table, normalizedTitle, i) ==
    IF i > Len(table) THEN "unknown"
    ELSE IF includes(normalizedTitle, table[i][1]) THEN table[i][1]
    ELSE DepartmentScan(table, normalizedTitle, i + 1)

\* TitleMissing as title == null, which lets the empty string through
TitleMissingNullOnly(title) == title.t \in {"undefined", "null"}

\* the guard of analyzeJobTitle: if (!title) return the unknown result
TitleMissing(title) == Falsy(title)

\* analyzeJobTitle(title), title a JavaScript value
analyzeJobTitle(eng, title) ==
    IF TitleMissing(title)
    THEN Return([score |-> 0, level |-> "unknown", department |-> "unknown"])
    ELSE IF title.t # "string" THEN Throw("title.toLowerCase is not a function")
    ELSE Only({Return([score |-> scan.bestScore, level |-> scan.level,
                       department |-> department]) :
                  scan \in {LevelScan(eng.jobTitleWeights, toLowerCase(title.s), 1, 0,
                                      "individual_contributor")},
                  department \in {DepartmentScan(eng.departmentWeights,
                                                 toLowerCase(title.s), 1)}})

\* InRange with employees > min
InRangeStrict(employees, range) ==
    /\ employees.t = "number"
    /\ employees.n > range[1].n
    /\ ~range[2].finite \/ employees.n <= range[2].n

\* employees >= min && employees <= max, employees a number or undefined
\* (undefined converts to NaN, and every comparison with NaN is false)
InRange(employees, range) ==
    /\ employees.t = "number"
    /\ employees.n >= range[1].n
    /\ ~range[2].finite \/ employees.n <= range[2].n

RECURSIVE TierScan(_, _, _)
\* the loop over Object.entries(this.companyTiers), from entry i on
TierScan(tiers, employees, i) ==
    IF i > Len(tiers) THEN [tier |-> "startup", weight |-> 40]
    ELSE IF InRange(employees, tiers[i].employee_range)
         THEN [tier |-> tiers[i].name, weight |-> tiers[i].weight]
    ELSE TierScan(tiers, employees, i + 1)

\* analyzeCompany(companyData)
analyzeCompany(eng, companyData) ==
    IF Nullish(companyData)
    THEN Throw("Cannot destructure property 'name' of 'companyData'")
    ELSE Only({Return([tier |-> found.tier,
                       weight |-> found.weight,
                       employees |-> companyData.employees,
                       industry |-> OrElse(companyData.industry, Str("unknown")),
                       location |-> OrElse(companyData.location, Str("unknown"))]) :
                  found \in {TierScan(eng.companyTiers, companyData.employees, 1)}})

\* the industryMultipliers literal; a decimal literal denotes the nearest double
industryMultipliers ==
    << <<"technology", FDiv(110, 100)>>, <<"software", FDiv(110, 100)>>,
       <<"saas", FDiv(115, 100)>>, <<"finance", FDiv(105, 100)>>,
       <<"healthcare", FDiv(105, 100)>>, <<"manufacturing", FDiv(95, 100)>>,
       <<"retail", FDiv(90, 100)>> >>

\* the members every object literal inherits from Object.prototype
ObjectPrototypeKeys ==
    {"constructor", "__proto__", "hasOwnProperty", "isPrototypeOf",
     "propertyIsEnumerable", "toLocaleString", "toString", "valueOf",
     "__defineGetter__", "__defineSetter__", "__lookupGetter__",
     "__lookupSetter__"}

\* industryMultipliers[industryKey] || 1.0, as the number that score *= uses:
\* an inherited member is a function or an object, which is truthy and
\* converts to NaN
IndustryMultiplier(industryKey) ==
    IF \E i \in 1..Len(industryMultipliers) : industryMultipliers[i][1] = industryKey
    THEN LET i == CHOOSE j \in 1..Len(industryMultipliers) :
                      industryMultipliers[j][1] = industryKey
         IN  industryMultipliers[i][2]
    ELSE IF industryKey \in ObjectPrototypeKeys THEN FNaN
    ELSE FInt(1)

\* the literal 1.2
SalesBonus == FDiv(12, 10)

\* the department bonus for sales-related roles
DepartmentBonus(score, department) ==
    IF department = "sales" \/ department = "business development"
    THEN FMul(score, SalesBonus)
    ELSE score

\* Cap the score at 100
CapScore(score) == Only({MathMin(s, FInt(100)) : s \in {score}})

\* getPriorityLevel with every threshold five points lower
getPriorityLevelLowered(score) ==
    IF FGeq(score, FInt(75)) THEN "high"
    ELSE IF FGeq(score, FInt(55)) THEN "medium"
    ELSE IF FGeq(score, FInt(35)) THEN "low"
    ELSE "very_low"

\* getPriorityLevel(score), score a double
getPriorityLevel(score) ==
    IF FGeq(score, FInt(80)) THEN "high"
    ELSE IF FGeq(score, FInt(60)) THEN "medium"
    ELSE IF FGeq(score, FInt(40)) THEN "low"
    ELSE "very_low"

\* the score after the company size multiplier, the department bonus and
\* the industry modifier
ScaleScore(jobAnalysis, companyAnalysis, industryKey) ==
    Only({FMul(bonus, IndustryMultiplier(industryKey)) :
             bonus \in {DepartmentBonus(FMul(FInt(jobAnalysis.score),
                                             FDiv(companyAnalysis.weight, 100)),
                                        jobAnalysis.department)}})

\* the score that calculateLeadScore hands to Math.round and getPriorityLevel
ComposeScore(jobAnalysis, companyAnalysis, industryKey) ==
    CapScore(ScaleScore(jobAnalysis, companyAnalysis, industryKey))

\* the priority member of the object calculateLeadScore returns
PriorityOfResult(score) == getPriorityLevel(score)

\* the object calculateLeadScore returns for the capped score
LeadScore(score, jobAnalysis, companyAnalysis) ==
    [totalScore |-> MathRound(score),
     jobAnalysis |-> jobAnalysis,
     companyAnalysis |-> companyAnalysis,
     priority |-> PriorityOfResult(score)]

\* calculateLeadScore once both analyses have returned
ScoreAnalyses(ja, ca) ==
    IF ca.industry.t # "string"
    THEN Throw("companyAnalysis.industry.toLowerCase is not a function")
    ELSE Only({Return(LeadScore(score, ja, ca)) :
                  score \in {ComposeScore(ja, ca, toLowerCase(ca.industry.s))}})

\* calculateLeadScore once analyzeJobTitle has returned
ScoreCompany(eng, ja, companyData) ==
    Only({IF ca.threw THEN ca ELSE ScoreAnalyses(ja, ca.value) :
             ca \in {analyzeCompany(eng, companyData)}})

\* calculateLeadScore(jobData, companyData)
calculateLeadScore(eng, jobData, companyData) ==
    IF Nullish(jobData) THEN Throw("Cannot read properties of undefined (reading 'title')")
    ELSE Only({IF ja.threw THEN ja ELSE ScoreCompany(eng, ja.value, companyData) :
                  ja \in {analyzeJobTitle(eng, jobData.title)}})

InsightCLevel == "High-value C-level executive - excellent decision-making authority"
InsightSales == "Sales professional - likely understands value of sales tools"
InsightEnterprise == "Large enterprise - potential for high-value deal"
InsightPrime == "Prime prospect - should be prioritized for immediate outreach"

\* generateInsights testing the enterprise tier before the level
generateInsightsReordered(analysis) ==
    (IF analysis.companyAnalysis.tier = "enterprise" THEN <<InsightEnterprise>> ELSE <<>>)
    \o (IF analysis.jobAnalysis.level = "c_level" THEN <<InsightCLevel>> ELSE <<>>)
    \o (IF analysis.jobAnalysis.department = "sales" THEN <<InsightSales>> ELSE <<>>)
    \o (IF NumGeq(analysis.totalScore, 80) THEN <<InsightPrime>> ELSE <<>>)

\* generateInsights treating business development as the bonus does
generateInsightsBonusDepartments(analysis) ==
    (IF analysis.jobAnalysis.level = "c_level" THEN <<InsightCLevel>> ELSE <<>>)
    \o (IF analysis.jobAnalysis.department \in {"sales", "business development"}
        THEN <<InsightSales>> ELSE <<>>)
    \o (IF analysis.companyAnalysis.tier = "enterprise" THEN <<InsightEnterprise>> ELSE <<>>)
    \o (IF NumGeq(analysis.totalScore, 80) THEN <<InsightPrime>> ELSE <<>>)

\* generateInsights(analysis)
generateInsights(analysis) ==
    (IF analysis.jobAnalysis.level = "c_level" THEN <<InsightCLevel>> ELSE <<>>)
    \o (IF analysis.jobAnalysis.department = "sales" THEN <<InsightSales>> ELSE <<>>)
    \o (IF analysis.companyAnalysis.tier = "enterprise" THEN <<InsightEnterprise>> ELSE <<>>)
    \o (IF NumGeq(analysis.totalScore, 80) THEN <<InsightPrime>> ELSE <<>>)

(***************************************************************************)
(* Requests.  The bodies the clients send are drawn from the sets below.   *)
(***************************************************************************)
NoLeads == [t |-> "undefined", items |-> <<>>]
LeadsArray(items) == [t |-> "array", items |-> items]
LeadsObject == [t |-> "object", items |-> <<>>]

Request(route, job, company, leads) ==
    [route |-> route, job |-> job, company |-> company, leads |-> leads]

NoRequest == Request("idle", NoJob("undefined"), NoCompany("undefined"), NoLeads)
NoResponse == [status |-> 0]

\* titles that reach every weight of the job-title table
RoleTitles ==
    {"CEO", "Chief Executive Officer", "CTO", "Chief Financial Officer", "VP",
     "Vice President", "Director", "Senior Director", "Manager",
     "Senior Manager", "Team Lead", "Senior Lead", "Specialist",
     "Senior Specialist", "Analyst", "Senior Analyst", "Coordinator",
     "Associate", "Assistant", "Intern", "Junior Developer"}

\* the same roles inside the two departments that earn the bonus
SalesTitles == {"Sales " \o r : r \in RoleTitles}
              \cup {r \o " - Business Development" : r \in RoleTitles}

\* titles that exercise the substring matching and the department order
OddTitles ==
    {"", " ", "Janitor", "Leadership Coach", "International Liaison",
     "Chief Technology Officer", "Marketing Manager", "Sales Director",
     "SALES DIRECTOR", "Director of Sales and Marketing",
     "Director of Marketing and Sales", "Product Marketing Lead",
     "HR Business Development Associate", "Human Resources Manager",
     "Chromium Engineer", "Legal Operations Analyst", "Administrator",
     "Finance VP", "Senior Vice President of Engineering", "cto"}

TitleValues ==
    {Str(t) : t \in RoleTitles \cup SalesTitles \cup OddTitles}
    \cup {Undefined, Null, Num(7)}

\* one employee count inside every tier, and one that no tier contains
TierEmployees == {Num(0), Num(5), Num(25), Num(100), Num(500), Num(1500)}

EmployeeSweep == {Num(n) : n \in (0 - 2)..MaxEmployees} \cup {Undefined}

IndustryKeys ==
    {Str("technology"), Str("software"), Str("saas"), Str("finance"),
     Str("healthcare"), Str("manufacturing"), Str("retail"), Undefined}

IndustryValues ==
    IndustryKeys \cup {Str("Technology"), Str("SaaS"), Str("RETAIL"),
                       Str("unknown"), Str("biotech"), Str("constructor"),
                       Str(""), Null, Num(7)}

LocationValues == {Undefined, Str("Austin, TX")}

\* the bodies posted to /api/analyze-lead
LeadBodies ==
    {<<JobObj(Str(t)), CompanyObj(e, i, Undefined)>> :
        t \in RoleTitles \cup SalesTitles, e \in TierEmployees, i \in IndustryKeys}
    \cup {<<JobObj(t), CompanyObj(e, i, l)>> :
            t \in TitleValues, e \in {Num(25), Num(1500)},
            i \in {Str("saas"), Str("Technology")}, l \in LocationValues}
    \cup {<<JobObj(t), CompanyObj(e, Str("saas"), Undefined)>> :
            t \in {Str("Sales Director"), Str("Janitor")}, e \in EmployeeSweep}
    \cup {<<JobObj(t), CompanyObj(Num(100), i, Undefined)>> :
            t \in {Str("Sales Director"), Str("CEO"), Undefined},
            i \in IndustryValues}
    \cup {<<j, c>> :
            j \in {NoJob("undefined"), NoJob("null"), JobObj(Str("CEO")), JobObj(Num(7))},
            c \in {NoCompany("undefined"), NoCompany("null"),
                   CompanyObj(Num(1500), Str("technology"), Undefined)}}

GoodJob == JobObj(Str("Sales Director"))
GoodCompany == CompanyObj(Num(25), Str("saas"), Undefined)

\* the entries of a `leads` array
LeadEntries ==
    {LeadObj(Undefined, GoodJob, GoodCompany),
     LeadObj(Str("test-1"), JobObj(Str("Chief Executive Officer")),
             CompanyObj(Num(1500), Str("Technology"), Str("San Francisco, CA"))),
     LeadObj(Num(0), GoodJob, GoodCompany),
     LeadObj(Str(""), GoodJob, GoodCompany),
     LeadObj(Num(7), JobObj(Undefined), CompanyObj(Undefined, Undefined, Undefined)),
     LeadObj(Str("a"), NoJob("undefined"), GoodCompany),
     LeadObj(Undefined, GoodJob, NoCompany("undefined")),
     LeadObj(Num(0), NoJob("null"), GoodCompany),
     LeadObj(Str("m"), JobObj(Num(7)), GoodCompany),
     LeadObj(Undefined, GoodJob, CompanyObj(Num(25), Num(7), Undefined)),
     PrimLead("null"),
     PrimLead("number")}

RECURSIVE SeqsUpTo(_, _)
\* the sequences over S of length at most n
SeqsUpTo(S, n) ==
    IF n = 0 THEN {<<>>}
    ELSE LET shorter == SeqsUpTo(S, n - 1)
         IN  shorter \cup {Append(q, x) : q \in shorter, x \in S}

\* the values posted as `leads` to /api/batch-analyze
LeadsValues ==
    {LeadsArray(items) : items \in SeqsUpTo(LeadEntries, MaxBatch)}
    \cup {NoLeads, LeadsObject}

\* the leads that are sent again and again: their locations set them apart
\* from the bodies above
ReplayBodies ==
    {<<JobObj(Str("Marketing Manager")),
       CompanyObj(Num(5000), Str("Manufacturing"), Str("Detroit, MI"))>>,
     <<JobObj(Str("Junior Developer")),
       CompanyObj(Num(8), Str("Software"), Str("Portland, OR"))>>,
     <<JobObj(Str("Director of Marketing and Sales")),
       CompanyObj(Num(500), Str("SaaS"), Str("Chicago, IL"))>>}

\* the same leads as entries of a batch, and an entry that cannot be scored
ReplayEntries ==
    {LeadObj(Undefined, body[1], body[2]) : body \in ReplayBodies}
    \cup {LeadObj(Undefined, NoJob("undefined"),
                   CompanyObj(Num(1500), Str("Technology"), Str("San Francisco, CA")))}

ReplayLeads == {LeadsArray(items) : items \in SeqsUpTo(ReplayEntries, MaxBatch)}

(***************************************************************************)
(* The answers given so far to the replayed leads: for each of them the    *)
(* scoring fields it has been answered with and how often it was answered. *)
(***************************************************************************)
NoHistory == [body \in ReplayBodies |-> [answers |-> {}, times |-> 0]]

\* the scoring fields of an analysis, without the timestamp of the envelope
ScoringFields(analysis) ==
    [totalScore |-> analysis.totalScore,
     jobAnalysis |-> analysis.jobAnalysis,
     companyAnalysis |-> analysis.companyAnalysis,
     priority |-> analysis.priority,
     insights |-> analysis.insights]

\* the history after the lead `body` was answered with `analysis`
Recorded(hist, body, analysis) ==
    IF body \in DOMAIN hist
    THEN [hist EXCEPT ![body] =
              [answers |-> @.answers \cup {ScoringFields(analysis)},
               times |-> IF @.times < MaxReplays THEN @.times + 1 ELSE @.times]]
    ELSE hist

RECURSIVE RecordedAll(_, _, _, _)
\* the history after a batch was answered with `results`, from entry i on
RecordedAll(hist, items, results, i) ==
    IF i > Len(results) THEN hist
    ELSE IF results[i].success
         THEN RecordedAll(Recorded(hist, <<items[i].job, items[i].company>>,
                                   results[i].analysis),
                          items, results, i + 1)
    ELSE RecordedAll(hist, items, results, i + 1)

(***************************************************************************)
(* Handlers.                                                               *)
(***************************************************************************)
Reply(status, body) == [status |-> status, body |-> body]

\* new Date().toISOString()
Timestamp == now

\* if (!job || !company): job and company are objects, undefined or null
MissingFields(job, company) == Nullish(job) \/ Nullish(company)

\* the success response of POST /api/analyze-lead
AnalysisReply(analysis) ==
    Reply(200, [success |-> TRUE,
                data |-> [totalScore |-> analysis.totalScore,
                          jobAnalysis |-> analysis.jobAnalysis,
                          companyAnalysis |-> analysis.companyAnalysis,
                          priority |-> analysis.priority,
                          insights |-> generateInsights(analysis),
                          timestamp |-> Timestamp]])

\* the response of POST /api/analyze-lead and the number of engine calls
AnalyzeLeadReply(eng, job, company) ==
    IF MissingFields(job, company)
    THEN [calls |-> 0,
          reply |-> Reply(400, [error |-> "Missing required fields: job and company data"])]
    ELSE Only({[calls |-> 1,
                reply |-> IF analysis.threw
                          THEN Reply(500, [error |-> "Internal server error during analysis"])
                          ELSE AnalysisReply(analysis.value)] :
                  analysis \in {calculateLeadScore(eng, job, company)}})

\* app.post('/api/analyze-lead') for a body out of `bodies`
AnalyzeLeadOf(bodies) ==
    /\ req = NoRequest
    /\ \E body \in bodies :
        \E out \in {AnalyzeLeadReply(engine, body[1], body[2])} :
            /\ res' = out.reply
            /\ engineCalls' = out.calls
            /\ req' = Request("POST /api/analyze-lead", body[1], body[2], NoLeads)
            /\ history' = IF out.reply.status = 200
                          THEN Recorded(history, body, out.reply.body.data)
                          ELSE history
    /\ UNCHANGED <<engine, now>>

\* app.post('/api/analyze-lead')
AnalyzeLead == AnalyzeLeadOf(LeadBodies)

\* app.post('/api/analyze-lead') for a lead that is sent again and again
AnalyzeLeadAgain == AnalyzeLeadOf(ReplayBodies)

\* id: lead.id || index
ResultId(lead, index) ==
    IF Nullish(lead) THEN Throw("Cannot read properties of null (reading 'id')")
    ELSE Return(OrElse(lead.id, Num(index)))

\* the object the try block returns
LeadResult(id, analysis) ==
    [id |-> id,
     success |-> TRUE,
     analysis |-> [totalScore |-> analysis.totalScore,
                   jobAnalysis |-> analysis.jobAnalysis,
                   companyAnalysis |-> analysis.companyAnalysis,
                   priority |-> analysis.priority,
                   insights |-> generateInsights(analysis)]]

\* the try block of the leads.map callback
TryLead(eng, lead, index) ==
    IF Nullish(lead) THEN Throw("Cannot read properties of null (reading 'job')")
    ELSE Only({IF analysis.threw THEN analysis
               ELSE Return(LeadResult(ResultId(lead, index).value, analysis.value)) :
                  analysis \in {calculateLeadScore(eng, lead.job, lead.company)}})

\* the catch block of the leads.map callback
CatchLead(lead, index, error) ==
    IF ResultId(lead, index).threw THEN ResultId(lead, index)
    ELSE Return([id |-> ResultId(lead, index).value, success |-> FALSE,
                 error |-> error.message])

\* MapLead without the try/catch around the scoring
MapLeadNoCatch(eng, lead, index) == TryLead(eng, lead, index)

\* the leads.map callback: a result, or the error that escapes it
MapLead(eng, lead, index) ==
    Only({IF tried.threw THEN CatchLead(lead, index, tried) ELSE tried :
             tried \in {TryLead(eng, lead, index)}})

\* calculateLeadScore is entered for every entry whose members can be read
EngineEntered(lead) == IF Nullish(lead) THEN 0 ELSE 1

RECURSIVE MapLeads(_, _, _)
\* leads.map from the entry at index on (index counts from 0)
MapLeads(eng, items, index) ==
    IF index >= Len(items) THEN [threw |-> FALSE, results |-> <<>>, calls |-> 0]
    ELSE Only({IF one.threw
               THEN [threw |-> TRUE, results |-> <<>>,
                     calls |-> EngineEntered(items[index + 1])]
               ELSE Only({[threw |-> rest.threw,
                           results |-> <<one.value>> \o rest.results,
                           calls |-> EngineEntered(items[index + 1]) + rest.calls] :
                             rest \in {MapLeads(eng, items, index + 1)}}) :
                  one \in {MapLead(eng, items[index + 1], index)}})

\* the response of POST /api/batch-analyze and the number of engine calls
BatchAnalyzeReply(eng, leads) ==
    IF leads.t # "array"
    THEN [calls |-> 0, reply |-> Reply(400, [error |-> "Leads must be an array"])]
    ELSE Only({[calls |-> mapped.calls,
                reply |-> IF mapped.threw
                          THEN Reply(500, [error |-> "Internal server error during batch analysis"])
                          ELSE Reply(200, [success |-> TRUE,
                                           processed |-> Len(mapped.results),
                                           results |-> mapped.results])] :
                  mapped \in {MapLeads(eng, leads.items, 0)}})

\* app.post('/api/batch-analyze') for a `leads` value out of `values`
BatchAnalyzeOf(values) ==
    /\ req = NoRequest
    /\ \E leads \in values :
        \E out \in {BatchAnalyzeReply(engine, leads)} :
            /\ res' = out.reply
            /\ engineCalls' = out.calls
            /\ req' = Request("POST /api/batch-analyze", NoJob("undefined"),
                              NoCompany("undefined"), leads)
            /\ history' = IF out.reply.status = 200
                          THEN RecordedAll(history, leads.items,
                                           out.reply.body.results, 1)
                          ELSE history
    /\ UNCHANGED <<engine, now>>

\* app.post('/api/batch-analyze')
BatchAnalyze == BatchAnalyzeOf(LeadsValues)

\* app.post('/api/batch-analyze') for leads that are sent again and again
BatchAnalyzeAgain == BatchAnalyzeOf(ReplayLeads)

RECURSIVE Reversed(_)
Reversed(seq) ==
    IF seq = <<>> THEN <<>> ELSE Append(Reversed(Tail(seq)), Head(seq))

\* AnalysisCriteria sorting the department table in place, by ascending
\* weight, before sending it
AnalysisCriteriaSorting ==
    /\ req = NoRequest
    /\ engine' = [engine EXCEPT !.departmentWeights = Reversed(@)]
    /\ res' = Reply(200, [success |-> TRUE,
                          data |-> [jobTitleWeights |-> engine.jobTitleWeights,
                                    departmentWeights |-> engine'.departmentWeights,
                                    companyTiers |-> engine.companyTiers]])
    /\ req' = Request("GET /api/analysis-criteria", NoJob("undefined"),
                      NoCompany("undefined"), NoLeads)
    /\ engineCalls' = 0
    /\ UNCHANGED <<now, history>>

\* app.get('/api/analysis-criteria')
AnalysisCriteria ==
    /\ req = NoRequest
    /\ res' = Reply(200, [success |-> TRUE,
                          data |-> [jobTitleWeights |-> engine.jobTitleWeights,
                                    departmentWeights |-> engine.departmentWeights,
                                    companyTiers |-> engine.companyTiers]])
    /\ req' = Request("GET /api/analysis-criteria", NoJob("undefined"),
                      NoCompany("undefined"), NoLeads)
    /\ engineCalls' = 0
    /\ UNCHANGED <<engine, now, history>>

\* app.get('/api/health')
Health ==
    /\ req = NoRequest
    /\ res' = Reply(200, [status |-> "healthy", timestamp |-> Timestamp,
                          version |-> "1.0.0"])
    /\ req' = Request("GET /api/health", NoJob("undefined"),
                      NoCompany("undefined"), NoLeads)
    /\ engineCalls' = 0
    /\ UNCHANGED <<engine, now, history>>

\* paths that none of the four API routes matches
UnmatchedPaths == {"/api/non-existent", "/dashboard"}

\* a file sent by express.static or by res.sendFile
FileReply(file) == Reply(200, [file |-> file])

\* the error handling middleware, app.use((err, req, res, next) => ...)
ErrorMiddleware(development, message) ==
    Reply(500, [error |-> "Something went wrong!",
                message |-> IF development THEN message ELSE "Internal server error"])

\* the 404 handler, app.use((req, res) => ...)
NotFoundHandler == Reply(404, [error |-> "Endpoint not found"])

\* a GET of an unmatched path goes through express.static, which sends the
\* file of that name under public/ when there is one, and then through
\* app.get('*'), which sends public/index.html or, when that file is
\* missing, passes the error of res.sendFile to the error middleware
GetUnmatchedReply(path, inPublic, indexHtml, development) ==
    IF inPublic THEN FileReply("public" \o path)
    ELSE IF indexHtml THEN FileReply("public/index.html")
    ELSE ErrorMiddleware(development, "ENOENT: no such file or directory")

\* GET of a path that no API route matches
GetUnmatched ==
    /\ req = NoRequest
    /\ \E path \in UnmatchedPaths, inPublic \in BOOLEAN, indexHtml \in BOOLEAN,
          development \in BOOLEAN :
        /\ res' = GetUnmatchedReply(path, inPublic, indexHtml, development)
        /\ req' = Request("GET " \o path, NoJob("undefined"),
                          NoCompany("undefined"), NoLeads)
    /\ engineCalls' = 0
    /\ UNCHANGED <<engine, now, history>>

\* POST of a path that no API route matches: express.static and
\* app.get('*') pass it on, and the 404 handler answers
PostUnmatched ==
    /\ req = NoRequest
    /\ \E path \in UnmatchedPaths :
        req' = Request("POST " \o path, NoJob("undefined"),
                       NoCompany("undefined"), NoLeads)
    /\ res' = NotFoundHandler
    /\ engineCalls' = 0
    /\ UNCHANGED <<engine, now, history>>

\* the response has been sent and the request is over
Respond ==
    /\ req # NoRequest
    /\ req' = NoRequest
    /\ res' = NoResponse
    /\ engineCalls' = 0
    /\ UNCHANGED <<engine, now, history>>

\* time passes between two requests
Tick ==
    /\ req = NoRequest
    /\ now < MaxClock
    /\ now' = now + 1
    /\ UNCHANGED <<engine, req, res, engineCalls, history>>

Init ==
    /\ engine = JobAnalysisEngine
    /\ req = NoRequest
    /\ res = NoResponse
    /\ now = 0
    /\ engineCalls = 0
    /\ history = NoHistory

Next ==
    \/ AnalyzeLead
    \/ BatchAnalyze
    \/ AnalysisCriteria
    \/ Health
    \/ GetUnmatched
    \/ PostUnmatched
    \/ Respond
    \/ Tick

Spec == Init /\ [][Next]_vars

\* the same server answering a few leads again and again, in any order
NextAgain ==
    \/ AnalyzeLeadAgain
    \/ BatchAnalyzeAgain
    \/ AnalysisCriteria
    \/ Health
    \/ Respond
    \/ Tick

SpecAgain == Init /\ [][NextAgain]_vars

(***************************************************************************)
(* Properties.                                                             *)
(***************************************************************************)
IsAnalyze == req.route = "POST /api/analyze-lead"
IsBatch == req.route = "POST /api/batch-analyze"
\* a lead was scored and the analysis sent
Scored == IsAnalyze /\ res.status = 200
Analysis == res.body.data

\* a title or an industry of the documented type: a string, or absent
StringOrAbsent(v) == v.t \in {"string", "undefined", "null"}

\* v is an integer from lo to hi
IntegerIn(v, lo, hi) == v.t = "number" /\ v.n \in lo..hi

\* the priority that the thresholds 80, 60, 40 give a total score
PriorityOfTotal(total) ==
    IF NumGeq(total, 80) THEN "high"
    ELSE IF NumGeq(total, 60) THEN "medium"
    ELSE IF NumGeq(total, 40) THEN "low"
    ELSE "very_low"

\* C1: every analysis returned by analyze-lead has an integer totalScore
\* with 0 <= totalScore <= 100.
C1_TotalScoreInRange == Scored => IntegerIn(Analysis.totalScore, 0, 100)

\* C2: the priority is the bucket of the returned totalScore (>= 80 high,
\* 60..79 medium, 40..59 low, below 40 very_low), so that the rounded and
\* the unrounded score give the same priority.
C2_PriorityOfTotalScore ==
    Scored => Analysis.priority = PriorityOfTotal(Analysis.totalScore)

\* C3: "Sales Director" at {employees: 25, industry: "saas"} scores job 85,
\* level director, department sales, tier small of weight 55, totalScore 65
\* and priority medium.
C3_SalesDirectorExample ==
    (/\ Scored
     /\ req.job.title = Str("Sales Director")
     /\ req.company.employees = Num(25)
     /\ req.company.industry = Str("saas"))
    => /\ Analysis.jobAnalysis =
            [score |-> 85, level |-> "director", department |-> "sales"]
       /\ Analysis.companyAnalysis.tier = "small"
       /\ Analysis.companyAnalysis.weight = 55
       /\ Analysis.totalScore = Num(65)
       /\ Analysis.priority = "medium"

\* an entry that is an object without `job` or without `company`
LacksJobOrCompany(lead) ==
    lead.t = "object" /\ (Nullish(lead.job) \/ Nullish(lead.company))

\* an entry with both objects, whose title and industry are strings or absent
WellFormed(lead) ==
    /\ lead.t = "object"
    /\ lead.job.t = "object" /\ StringOrAbsent(lead.job.title)
    /\ lead.company.t = "object" /\ StringOrAbsent(lead.company.industry)

\* a batch with exactly one entry lacking job or company, all others well-formed
OneLacking(items) ==
    /\ Cardinality({i \in 1..Len(items) : LacksJobOrCompany(items[i])}) = 1
    /\ \A i \in 1..Len(items) : LacksJobOrCompany(items[i]) \/ WellFormed(items[i])

\* C4: a batch in which exactly one entry is an object lacking job (or
\* company) and all others are well-formed is answered with processed equal
\* to the number of entries, that entry success:false with an error message
\* and every other entry success:true with its analysis.
C4_OneBadEntryIsolated ==
    (IsBatch /\ req.leads.t = "array" /\ OneLacking(req.leads.items))
    => /\ res.status = 200
       /\ res.body.success
       /\ res.body.processed = Len(req.leads.items)
       /\ Len(res.body.results) = Len(req.leads.items)
       /\ \A i \in 1..Len(req.leads.items) :
            IF LacksJobOrCompany(req.leads.items[i])
            THEN /\ ~res.body.results[i].success
                 /\ "error" \in DOMAIN res.body.results[i]
                 /\ res.body.results[i].error # ""
            ELSE /\ res.body.results[i].success
                 /\ "analysis" \in DOMAIN res.body.results[i]
                 /\ res.body.results[i].analysis.priority
                        \in {"high", "medium", "low", "very_low"}

\* C4 witness: a two-entry batch whose second entry lacks job was answered.
C4_Witness ==
    /\ IsBatch
    /\ req.leads.t = "array"
    /\ Len(req.leads.items) = 2
    /\ OneLacking(req.leads.items)
    /\ Nullish(req.leads.items[2].job)
    /\ res.status = 200
    /\ ~res.body.results[2].success

\* C5: whatever the entries of the `leads` array are, the batch is answered
\* with the success response and one result per entry.
C5_BatchNeverFailsWholesale ==
    (IsBatch /\ req.leads.t = "array")
    => /\ res.status = 200
       /\ res.body.success
       /\ Len(res.body.results) = Len(req.leads.items)

\* C6: the i-th result carries the id supplied with the i-th lead whenever
\* one was supplied (0 and "" included) and the index i otherwise.
C6_IdPreserved ==
    (IsBatch /\ res.status = 200)
    => \A i \in 1..Len(req.leads.items) :
          res.body.results[i].id =
              IF req.leads.items[i].t = "object" /\ ~Nullish(req.leads.items[i].id)
              THEN req.leads.items[i].id
              ELSE Num(i - 1)

AnalysisFields == {"totalScore", "jobAnalysis", "companyAnalysis", "priority", "insights"}

\* the validation half of C7: 400 without an engine call
RejectedWhenMissing ==
    (IsAnalyze /\ (Nullish(req.job) \/ Nullish(req.company)))
    => /\ res.status = 400
       /\ "error" \in DOMAIN res.body
       /\ engineCalls = 0

SuccessResponse ==
    /\ res.status = 200
    /\ res.body.success
    /\ AnalysisFields \subseteq DOMAIN res.body.data

\* C7: analyze-lead answers 400 without an engine call when job or company
\* is absent or null, and a success response with the five analysis fields
\* whenever both are present objects.
C7_ValidationAndSuccess ==
    /\ RejectedWhenMissing
    /\ (IsAnalyze /\ req.job.t = "object" /\ req.company.t = "object")
       => SuccessResponse

\* no keyword of the job-title table occurs in the lowercased title
NoJobKeyword(title) ==
    \E lower \in {toLowerCase(title)} :
        \A i \in 1..Len(engine.jobTitleWeights) :
            ~includes(lower, engine.jobTitleWeights[i][1])

\* the positions of the department keywords that occur in the lowercased title
DepartmentHits(title) ==
    Only({{i \in 1..Len(engine.departmentWeights) :
              includes(lower, engine.departmentWeights[i][1])} :
             lower \in {toLowerCase(title)}})

\* the first department keyword, in table order, that occurs in the title
FirstDepartment(title) ==
    Only({IF hits = {} THEN "unknown"
          ELSE engine.departmentWeights[
                   CHOOSE i \in hits : \A j \in hits : i <= j][1] :
             hits \in {DepartmentHits(title)}})

UnknownResult == [score |-> 0, level |-> "unknown", department |-> "unknown"]

\* C8: the job analysis is {0, unknown, unknown} exactly when the title is
\* absent or the empty string; a non-empty title without a job-title keyword
\* gets score 0, level individual_contributor and the department the table
\* resolves.
C8_UnknownOnlyWhenAbsent ==
    (Scored /\ StringOrAbsent(req.job.title))
    => /\ (Analysis.jobAnalysis = UnknownResult)
            <=> (Nullish(req.job.title) \/ req.job.title = Str(""))
       /\ (req.job.title.t = "string" /\ req.job.title.s # ""
           /\ NoJobKeyword(req.job.title.s))
          => /\ Analysis.jobAnalysis.score = 0
             /\ Analysis.jobAnalysis.level = "individual_contributor"
             /\ Analysis.jobAnalysis.department = FirstDepartment(req.job.title.s)

\* C8 witness: a title without a job-title keyword but with a department
\* keyword was analysed.
C8_Witness ==
    /\ Scored
    /\ req.job.title = Str("Chromium Engineer")
    /\ Analysis.jobAnalysis.level = "individual_contributor"
    /\ Analysis.jobAnalysis.department = "hr"

\* the tier and weight the documented ranges give a positive employee count
TierOfCount(n) ==
    IF n >= 1000 THEN <<"enterprise", 100>>
    ELSE IF n >= 250 THEN <<"large", 85>>
    ELSE IF n >= 50 THEN <<"medium", 70>>
    ELSE IF n >= 10 THEN <<"small", 55>>
    ELSE <<"startup", 40>>

\* the tiers of the table whose range contains the employee count
MatchingTiers(employees) ==
    {i \in 1..Len(engine.companyTiers) :
        /\ employees.n >= engine.companyTiers[i].employee_range[1].n
        /\ \/ ~engine.companyTiers[i].employee_range[2].finite
           \/ employees.n <= engine.companyTiers[i].employee_range[2].n}

\* C9: exactly one tier range contains a positive employee count and
\* analyzeCompany returns that tier with its weight; a count of 0 or below
\* is in no range and gets the fallback startup / 40.
C9_TiersPartition ==
    (Scored /\ req.company.employees.t = "number")
    => IF req.company.employees.n >= 1
       THEN /\ Cardinality(MatchingTiers(req.company.employees)) = 1
            /\ <<Analysis.companyAnalysis.tier, Analysis.companyAnalysis.weight>>
                   = TierOfCount(req.company.employees.n)
            /\ \E i \in MatchingTiers(req.company.employees) :
                   engine.companyTiers[i].name = Analysis.companyAnalysis.tier
       ELSE /\ MatchingTiers(req.company.employees) = {}
            /\ Analysis.companyAnalysis.tier = "startup"
            /\ Analysis.companyAnalysis.weight = 40

\* C9 witness: a company with no employees was classified.
C9_Witness ==
    /\ Scored
    /\ req.company.employees = Num(0)
    /\ Analysis.companyAnalysis.tier = "startup"

IsCeoExample ==
    /\ Scored
    /\ req.job.title = Str("Chief Executive Officer")
    /\ req.company.employees = Num(1500)
    /\ req.company.industry = Str("technology")

C11_ScoringDependsOnInputOnly ==
    /\ engine = JobAnalysisEngine
    /\ \A body \in DOMAIN history : Cardinality(history[body].answers) <= 1

\* C11 witness: a lead answered before was answered again inside a batch of
\* two, after the clock had advanced.
C11_Witness ==
    /\ IsBatch
    /\ res.status = 200
    /\ Len(req.leads.items) = 2
    /\ now = MaxClock
    /\ \E body \in DOMAIN history :
          /\ history[body].times = MaxReplays
          /\ Cardinality(history[body].answers) = 1
          /\ req.leads.items[2].job = body[1]
          /\ req.leads.items[2].company = body[2]

IsGetUnmatched == req.route \in {"GET " \o path : path \in UnmatchedPaths}

\* C12: a GET of a path that matches no API route is answered with status
\* 404.
C12_UnmatchedGetIs404 == IsGetUnmatched => res.status = 404

\* the weights of the job-title keywords that occur in the lowercased title
MatchedWeights(title) ==
    Only({{engine.jobTitleWeights[i][2] :
              i \in {j \in 1..Len(engine.jobTitleWeights) :
                        includes(lower, engine.jobTitleWeights[j][1])}} :
             lower \in {toLowerCase(title)}})

\* the largest of them, 0 when no keyword occurs
MaxWeight(title) ==
    Only({IF weights = {} THEN 0
          ELSE CHOOSE w \in weights : \A v \in weights : v <= w :
             weights \in {MatchedWeights(title)}})

\* the level the documented thresholds give a weight
LevelByThresholds(weight) ==
    CASE weight >= 90 -> "c_level"
      [] weight >= 80 /\ weight < 90 -> "director"
      [] weight >= 65 /\ weight < 80 -> "manager"
      [] weight >= 45 /\ weight < 65 -> "specialist"
      [] OTHER -> "individual_contributor"

NonEmptyTitle == req.job.title.t = "string" /\ req.job.title.s # ""

\* C13: for a non-empty title the job score is the largest weight among the
\* job-title keywords that occur in the lowercased title, 0 when none
\* occurs, and the level is the one the thresholds 90, 80, 65, 45 give that
\* weight.
C13_ScoreIsMaxWeight ==
    (Scored /\ NonEmptyTitle)
    => \E best \in {MaxWeight(req.job.title.s)} :
          /\ Analysis.jobAnalysis.score = best
          /\ Analysis.jobAnalysis.level = LevelByThresholds(best)

\* C13 witness: a title in which a lighter keyword precedes, in the table,
\* the heavier one that also occurs was scored with the heavier weight.
C13_Witness ==
    /\ Scored
    /\ req.job.title = Str("Senior Manager")
    /\ MatchedWeights(req.job.title.s) = {70, 75}
    /\ Analysis.jobAnalysis.score = 75
    /\ Analysis.jobAnalysis.level = "manager"

\* the multiplier of the lowercased industry in hundredths
MultiplierPercent(industryKey) ==
    CASE industryKey \in {"technology", "software"} -> 110
      [] industryKey = "saas" -> 115
      [] industryKey \in {"finance", "healthcare"} -> 105
      [] industryKey = "manufacturing" -> 95
      [] industryKey = "retail" -> 90
      [] OTHER -> 100

\* the bonus b in tenths
BonusTenths(department) ==
    IF department \in {"sales", "business development"} THEN 12 ELSE 10

\* jobScore x (tierWeight / 100) x b x m as a multiple of 1/100000
ProductUnit == 100 * 10 * 100

ExactProduct(analysis) ==
    analysis.jobAnalysis.score * analysis.companyAnalysis.weight
        * BonusTenths(analysis.jobAnalysis.department)
        * MultiplierPercent(toLowerCase(analysis.companyAnalysis.industry.s))

\* round-half-up(min(p / ProductUnit, 100))
RoundHalfUpCapped(p) ==
    IF p >= 100 * ProductUnit THEN 100
    ELSE (2 * p + ProductUnit) \div (2 * ProductUnit)

\* C14: whenever totalScore is a number, it is the product jobScore x
\* (tierWeight / 100) x b x m, capped at 100 and then rounded half up, with
\* b = 1.2 for the departments sales and business development and 1
\* otherwise, and m the industry multiplier.
C14_TotalIsRoundedProduct ==
    (Scored /\ Analysis.totalScore.t = "number")
    => Analysis.totalScore.n = RoundHalfUpCapped(ExactProduct(Analysis))

\* the key under which calculateLeadScore looks the industry up
IndustryKeyOf(analysis) == toLowerCase(analysis.companyAnalysis.industry.s)

\* C15: the multiplier that calculateLeadScore applies is the one listed for
\* the lowercased industry (1.1, 1.1, 1.15, 1.05, 1.05, 0.95, 0.9) and
\* exactly 1.0 for every other industry string and for an absent industry.
C15_MultiplierByLowercasedIndustry ==
    Scored
    => IndustryMultiplier(IndustryKeyOf(Analysis))
           = FDiv(MultiplierPercent(IndustryKeyOf(Analysis)), 100)

\* the four insight strings in the order of their tests
InsightOrder == <<InsightCLevel, InsightSales, InsightEnterprise, InsightPrime>>

\* the condition that the k-th test of generateInsights states
InsightCondition(analysis, k) ==
    CASE k = 1 -> analysis.jobAnalysis.level = "c_level"
      [] k = 2 -> analysis.jobAnalysis.department = "sales"
      [] k = 3 -> analysis.companyAnalysis.tier = "enterprise"
      [] k = 4 -> analysis.totalScore.t = "number" /\ analysis.totalScore.n >= 80

\* the positions in InsightOrder of the entries of the list
InsightPositions(insights) ==
    [i \in 1..Len(insights) |->
        IF \E k \in 1..4 : InsightOrder[k] = insights[i]
        THEN CHOOSE k \in 1..4 : InsightOrder[k] = insights[i]
        ELSE 0]

\* the score of the analysis with the 1.2 bonus applied
ScoreWithBonus(analysis) ==
    MathRound(CapScore(FMul(FMul(FMul(FInt(analysis.jobAnalysis.score),
                                      FDiv(analysis.companyAnalysis.weight, 100)),
                                 FDiv(12, 10)),
                            IndustryMultiplier(IndustryKeyOf(analysis)))))

\* C16: the insights are the fixed strings of exactly those of the four
\* conditions that hold, each once, in the order c_level, sales, enterprise,
\* high score; a business development lead has the 1.2 bonus in its score
\* and no sales insight.
C16_InsightsInFixedOrder ==
    Scored
    => /\ \E at \in {InsightPositions(Analysis.insights)} :
            /\ \A i \in 1..Len(Analysis.insights) : at[i] # 0
            /\ \A i, j \in 1..Len(Analysis.insights) : i < j => at[i] < at[j]
       /\ \A k \in 1..4 :
            InsightCondition(Analysis, k)
                <=> \E i \in 1..Len(Analysis.insights) :
                        Analysis.insights[i] = InsightOrder[k]
       /\ Analysis.jobAnalysis.department = "business development"
            => /\ \A i \in 1..Len(Analysis.insights) :
                     Analysis.insights[i] # InsightSales
               /\ Analysis.totalScore = ScoreWithBonus(Analysis)

\* C16 witness: a business development lead at an enterprise was scored with
\* the bonus and without the sales insight.
C16_Witness ==
    /\ Scored
    /\ req.job.title = Str("Manager - Business Development")
    /\ req.company.employees = Num(1500)
    /\ req.company.industry = Str("saas")
    /\ Analysis.jobAnalysis.department = "business development"
    /\ Analysis.totalScore = Num(97)
    /\ Analysis.insights = <<InsightEnterprise, InsightPrime>>

\* C17: for a non-empty title the department is the first keyword, in the
\* declared order of the department table, that occurs in the lowercased
\* title, and "unknown" when none occurs.
C17_DepartmentFirstInTableOrder ==
    (Scored /\ NonEmptyTitle)
    => /\ [i \in 1..Len(engine.departmentWeights) |-> engine.departmentWeights[i][1]]
            = <<"sales", "business development", "marketing", "product",
                "engineering", "technology", "operations", "finance", "hr",
                "human resources", "legal", "admin">>
       /\ Analysis.jobAnalysis.department = FirstDepartment(req.job.title.s)

\* C17 witness: a title that names marketing before sales got the department
\* sales.
C17_Witness ==
    /\ Scored
    /\ req.job.title = Str("Director of Marketing and Sales")
    /\ DepartmentHits(req.job.title.s) = {1, 3}
    /\ Analysis.jobAnalysis.department = "sales"

\* the titles tried for each level: every job-title keyword by itself and
\* every non-empty title of the requests.  A title that contains a keyword
\* matches at least the keywords that the keyword itself contains, so a level
\* that some title attains through its best keyword is attained by that
\* keyword alone.
LevelProbes ==
    {engine.jobTitleWeights[i][1] : i \in 1..Len(engine.jobTitleWeights)}
    \cup ((RoleTitles \cup SalesTitles \cup OddTitles) \ {""})

AttainedLevels ==
    {analyzeJobTitle(engine, Str(title)).value.level : title \in LevelProbes}

\* C18: each of the levels c_level, director, manager, specialist and
\* individual_contributor is returned by analyzeJobTitle for at least one
\* non-empty title.
C18_EveryLevelAttainable ==
    {"c_level", "director", "manager", "specialist", "individual_contributor"}
        \subseteq AttainedLevels

\* the company of the request has fewer than `limit` employees, or a count
\* that is no number
FewerEmployees(limit) ==
    req.company.employees.t # "number" \/ req.company.employees.n < limit

\* C19: a lead whose company is classified startup or small, the fallback
\* for counts of 0 or below included, never gets priority high, and a lead
\* whose company is classified startup never gets priority medium either.
C19_HighNeedsMediumTier ==
    Scored
    => /\ FewerEmployees(50) => Analysis.companyAnalysis.tier \in {"startup", "small"}
       /\ FewerEmployees(10) => Analysis.companyAnalysis.tier = "startup"
       /\ Analysis.companyAnalysis.tier \in {"startup", "small"}
            => Analysis.priority # "high"
       /\ Analysis.companyAnalysis.tier = "startup"
            => Analysis.priority \notin {"high", "medium"}

\* C19 witness: the best lead a small company can be, a chief executive in
\* sales at a saas company, was scored below high.
C19_Witness ==
    /\ Scored
    /\ req.job.title = Str("Sales CEO")
    /\ req.company.employees = Num(25)
    /\ req.company.industry = Str("saas")
    /\ Analysis.jobAnalysis.score = 100
    /\ Analysis.jobAnalysis.department = "sales"
    /\ Analysis.companyAnalysis.tier = "small"
    /\ Analysis.totalScore = Num(76)
    /\ Analysis.priority = "medium"
====
